---- MODULE Spec2Model ----
(***************************************************************************)
(* A model of mintpy/prep_isce.py: the command line driver main() and the  *)
(* conversion steps it runs in order (get_processor, extract_isce_metadata, *)
(* prepare_geometry, read_baseline_timeseries, prepare_stack).              *)
(*                                                                         *)
(* Conventions                                                             *)
(*  - a Python str is a sequence of one-character strings, so that slicing, *)
(*    startswith/endswith, split and join are computed and not assumed;     *)
(*  - None is the empty sequence <<>>, an optional value x is <<x>>;        *)
(*  - a dict is a function from its keys;                                   *)
(*  - a metadata value is a record [t, of, n, d, s]: t is the Python type   *)
(*    ("int", "float", "datetime", "str"), n/d the number (a reduced        *)
(*    fraction, floats are exact rationals here), s the text of a str that  *)
(*    was not made by str(), and "of" the type str() was applied to.        *)
(***************************************************************************)
EXTENDS Integers, Sequences, FiniteSets, TLC

VARIABLES
    pc,            \* position in main(): the step to run next, "done" or "raised"
    exc,           \* name of the exception that ended the run, "" if none
    inps,          \* the argparse namespace (plus inps.processor once set)
    metaDir,       \* base names of the files in os.path.dirname(inps.metaFile)
    mtime,         \* modification times [meta, rsc, rsc_now]: of the metadata file, of
                   \* data.rsc when the run starts (0: absent) and of data.rsc now
    data_rsc,      \* content of <metaDir>/data.rsc, <<>> when absent
    product,       \* the ISCE product / frame object load_product or shelve returns
    geom,          \* the geometry directory: per raster base name, what is on disk
    extracted,     \* "": extract_isce_metadata not run; else "skip", "run"
    metadata,      \* main()'s common metadata dict
    geom_rsc,      \* content of <geom_dir>/<name>.rdr.rsc, by name, for those on disk
    bfiles,        \* the baselines directory: baseline text files found by glob
    baseline_dict, \* main()'s baseline_dict: <<>> for None, else <<dict>>
    ifgs,          \* the interferogram files matched by glob: [dir, attr] records
    ifg_rsc,       \* content of <file>.rsc by pair directory name, for those on disk
    ifg_meta,  \* what add_ifgram_metadata returned, by pair directory name
    at_call        \* [fn, metadata, rsc]: the arguments of the last prepare_* call

vars == <<pc, exc, inps, metaDir, mtime, data_rsc, product, geom, extracted,
          metadata, geom_rsc, bfiles, baseline_dict, ifgs, ifg_rsc, ifg_meta,
          at_call>>

----------------------------------------------------------------------------
(* Python str, list and dict helpers *)

None == <<>>

Some(x) == <<x>>

\* s.startswith(p)
StartsWith(s, p) == Len(s) >= Len(p) /\ SubSeq(s, 1, Len(p)) = p

\* s.endswith(p)
EndsWith(s, p) == Len(s) >= Len(p) /\ SubSeq(s, Len(s) - Len(p) + 1, Len(s)) = p

\* s[k:] for k >= 0
SliceFrom(s, k) == SubSeq(s, k + 1, Len(s))

\* index of the first occurrence of character c in s, 0 when absent
RECURSIVE FindChar(_, _, _)
FindChar(s, c, i) ==
    IF i > Len(s) THEN 0
    ELSE IF s[i] = c THEN i
    ELSE FindChar(s, c, i + 1)

\* s.split(c) for a one-character separator c
RECURSIVE Split(_, _)
Split(s, c) ==
    LET i == FindChar(s, c, 1) IN
    IF i = 0 THEN <<s>>
    ELSE <<SubSeq(s, 1, i - 1)>> \o Split(SubSeq(s, i + 1, Len(s)), c)

\* s.replace(c, '') for a one-character c
RECURSIVE RemoveChar(_, _)
RemoveChar(s, c) ==
    IF s = <<>> THEN <<>>
    ELSE IF Head(s) = c THEN RemoveChar(Tail(s), c)
    ELSE <<Head(s)>> \o RemoveChar(Tail(s), c)

\* the characters that are compared, in the order of their code points
Chars == <<"'", "-", ".", "/", "0", "1", "2", "3", "4", "5", "6", "7", "8", "9", "_">>

\* ord(c), as far as the order of the characters in use goes
Ord(c) == CHOOSE i \in 1..Len(Chars) : Chars[i] = c

\* a < b for two str
RECURSIVE StrLess(_, _)
StrLess(a, b) ==
    IF b = <<>> THEN FALSE
    ELSE IF a = <<>> THEN TRUE
    ELSE IF Head(a) # Head(b) THEN Ord(Head(a)) < Ord(Head(b))
    ELSE StrLess(Tail(a), Tail(b))

\* d.update(e), as a new dict
Update(d, e) ==
    [k \in DOMAIN d \cup DOMAIN e |-> IF k \in DOMAIN e THEN e[k] ELSE d[k]]

\* d[k] = v, as a new dict
Put(d, k, v) == [x \in DOMAIN d \cup {k} |-> IF x = k THEN v ELSE d[x]]

EmptyDict == [k \in {} |-> 0]

----------------------------------------------------------------------------
(* Metadata values *)

RECURSIVE GCD(_, _)
GCD(a, b) == IF b = 0 THEN a ELSE GCD(b, a % b)

Abs(x) == IF x < 0 THEN -x ELSE x

PyInt(n) == [t |-> "int", of |-> "int", n |-> n, d |-> 1, s |-> <<>>]

\* the float n/d, reduced, with a positive denominator
PyFloat(n, d) ==
    LET g == GCD(Abs(n), Abs(d))
        sg == IF d < 0 THEN -1 ELSE 1
    IN [t |-> "float", of |-> "float", n |-> sg * (n \div g), d |-> sg * (d \div g), s |-> <<>>]

PyDateTime(n) == [t |-> "datetime", of |-> "datetime", n |-> n, d |-> 1, s |-> <<>>]

PyText(s) == [t |-> "str", of |-> "text", n |-> 0, d |-> 1, s |-> s]

\* str(v): a str is returned as it is, any other value becomes its rendering
PyStr(v) == IF v.t = "str" THEN v ELSE [v EXCEPT !.t = "str"]

\* a * b: int * int is an int, anything with a float is a float
Mul(a, b) ==
    IF a.t = "int" /\ b.t = "int" THEN PyInt(a.n * b.n)
    ELSE PyFloat(a.n * b.n, a.d * b.d)

\* a / b: true division, always a float
Div(a, b) == PyFloat(a.n * b.d, a.d * b.n)

\* a - b on ints and floats
Sub(a, b) ==
    IF a.t = "int" /\ b.t = "int" THEN PyInt(a.n - b.n)
    ELSE PyFloat(a.n * b.d - b.n * a.d, a.d * b.d)

----------------------------------------------------------------------------
(* File names *)

IW1_XML == <<"I","W","1",".","x","m","l">>

IW2_XML == <<"I","W","2",".","x","m","l">>

IW3_XML == <<"I","W","3",".","x","m","l">>

DATA_DAT == <<"d","a","t","a",".","d","a","t">>

SLC_XML == <<"s","l","c",".","x","m","l">>

META_TXT == <<"m","e","t","a",".","t","x","t">>

\* the metadata files a run is given (-m), by base name
MetaFiles == {IW1_XML, IW2_XML, DATA_DAT, SLC_XML, META_TXT}

\* other files that may lie in the metadata file's directory
Siblings == {IW3_XML, DATA_DAT}

\* fnmatch(name, 'IW*.xml')
MatchIWxml(name) ==
    /\ Len(name) >= 6
    /\ StartsWith(name, <<"I","W">>)
    /\ EndsWith(name, <<".","x","m","l">>)

\* os.path.splitext(name)[0]: the name up to its last dot
RECURSIVE SplitExt0(_)
SplitExt0(name) ==
    IF name = <<>> THEN <<>>
    ELSE IF name[Len(name)] = "." THEN SubSeq(name, 1, Len(name) - 1)
    ELSE SplitExt0(SubSeq(name, 1, Len(name) - 1))

----------------------------------------------------------------------------
(* cmd_line_parse and get_processor *)

\* Python truthiness of an argparse str option: None and '' are false
Truthy(opt) == opt # None /\ opt[1] # <<>>

\* cmd_line_parse: "" when the namespace is returned, else the exception raised
cmd_line_parse(ns) ==
    IF ~Truthy(ns.ifgramDir) /\ ~Truthy(ns.geometryDir) /\ ~Truthy(ns.metaFile)
    THEN "SystemExit"
    ELSE ""

\* get_processor(meta_file), meta_file a str: [exc, processor]; dir is the listing
\* of os.path.dirname(meta_file)
get_processor_mut(meta_file, dir) ==
    IF DATA_DAT \in dir \/ EndsWith(meta_file, <<".","x","m","l">>)
        THEN [exc |-> "", processor |-> "stripmap"]
    ELSE IF \E f \in dir : MatchIWxml(f)
        THEN [exc |-> "", processor |-> "tops"]
    ELSE [exc |-> "ValueError", processor |-> ""]

get_processor(meta_file, dir) ==
    IF \E f \in dir : MatchIWxml(f)
        THEN [exc |-> "", processor |-> "tops"]
    ELSE IF DATA_DAT \in dir
        THEN [exc |-> "", processor |-> "stripmap"]
    ELSE IF EndsWith(meta_file, <<".","x","m","l">>)
        THEN [exc |-> "", processor |-> "stripmap"]
    ELSE [exc |-> "ValueError", processor |-> ""]

\* get_processor(inps.metaFile) as main calls it: os.path.dirname(None) raises
\* TypeError before anything is looked up
get_processor_opt(metaFile, dir) ==
    IF metaFile = None THEN [exc |-> "TypeError", processor |-> ""]
    ELSE get_processor(metaFile[1], dir)

----------------------------------------------------------------------------
(* The ISCE objects: what load_product / shelve hand back for a scene.      *)
(* One record serves both conventions; each extractor reads its own fields. *)

SPEED_OF_LIGHT == 299792458

ProductA ==
    [prf |-> PyFloat(1500, 1), startUTC |-> PyDateTime(3725), stopUTC |-> PyDateTime(3750),
     radarWavelength |-> PyFloat(56, 1000), startingRange |-> PyFloat(800000, 1),
     passDirection |-> PyText(<<"A","S","C">>), polarization |-> <<"v","v">>,
     trackNumber |-> PyInt(64), orbitNumber |-> PyInt(3000),
     Vs |-> PyFloat(7050, 1), azimuthTimeInterval |-> PyFloat(2, 1000),
     rangePixelSize |-> PyFloat(23, 10), pegRadCur |-> PyFloat(6370000, 1),
     altitude |-> PyFloat(700000, 1), swathNumber |-> PyInt(2),
     ascendingNodeTime |-> PyDateTime(3000),
     antennaLength |-> PyFloat(10, 1), pulseLength |-> PyFloat(1, 1),
     chirpSlope |-> PyFloat(149896229, 1)]

ProductB ==
    [ProductA EXCEPT !.polarization = <<"b","'","H","H","'">>,
                     !.passDirection = PyText(<<"D","E","S","C">>),
                     !.rangePixelSize = PyFloat(4, 1),
                     !.chirpSlope = PyFloat(-299792458, 1),
                     !.antennaLength = PyFloat(9, 1)]

ProductC ==
    [ProductA EXCEPT !.polarization = <<"H","/","V">>,
                     !.Vs = PyFloat(7500, 1)]

Products == {ProductA, ProductB, ProductC}

\* Table 7-5 of the Sentinel-1 product definition, per subswath
TOPS_RESOLUTION(iw) ==
    [rangeResolution |->
        IF iw = <<"I","W","1">> THEN PyFloat(27, 10)
        ELSE IF iw = <<"I","W","2">> THEN PyFloat(31, 10)
        ELSE PyFloat(35, 10),
     azimuthResolution |->
        IF iw = <<"I","W","1">> THEN PyFloat(225, 10)
        ELSE IF iw = <<"I","W","2">> THEN PyFloat(227, 10)
        ELSE PyFloat(226, 10),
     rangePixelSize |-> PyFloat(23, 10),
     azimuthPixelSize |-> PyFloat(141, 10)]

\* load_product(fname).bursts[0].swathNumber of a subswath file IW<n>.xml, as str(n)
SwathDigit(name) == name[3]

\* ''.join(str(i) for i in sorted(swath_num)) over the IW*.xml files of dir
RECURSIVE JoinSorted(_)
JoinSorted(digits) ==
    IF digits = {} THEN <<>>
    ELSE LET m == CHOOSE x \in digits : \A y \in digits : Ord(x) <= Ord(y)
         IN <<m>> \o JoinSorted(digits \ {m})

\* extract_tops_metadata(xml_file)[0]; dir lists the files beside xml_file, p is
\* the loaded product
extract_tops_metadata(xml_file, dir, p) ==
    LET iw_str == IF StartsWith(xml_file, <<"I","W">>) THEN SplitExt0(xml_file)
                  ELSE <<"I","W","2">>
        xml_files == {f \in dir : MatchIWxml(f)}
        swath == IF Cardinality(xml_files) > 1
                 THEN PyText(JoinSorted({SwathDigit(f) : f \in xml_files}))
                 ELSE p.swathNumber
    IN [prf |-> p.prf,
        startUTC |-> p.startUTC,
        stopUTC |-> p.stopUTC,
        radarWavelength |-> p.radarWavelength,
        startingRange |-> p.startingRange,
        passDirection |-> p.passDirection,
        polarization |-> PyText(p.polarization),
        trackNumber |-> p.trackNumber,
        orbitNumber |-> p.orbitNumber,
        CENTER_LINE_UTC |-> PyFloat(p.startUTC.n, 1),
        azimuthPixelSize |-> Mul(p.Vs, p.azimuthTimeInterval),
        rangePixelSize |-> p.rangePixelSize,
        azimuthResolution |-> TOPS_RESOLUTION(iw_str).azimuthResolution,
        rangeResolution |-> TOPS_RESOLUTION(iw_str).rangeResolution,
        earthRadius |-> p.pegRadCur,
        altitude |-> p.altitude,
        beam_mode |-> PyText(<<"I","W">>),
        swathNumber |-> swath,
        firstFrameNumber |-> PyInt((p.startUTC.n - p.ascendingNodeTime.n) \div 5),
        lastFrameNumber |-> PyInt((p.stopUTC.n - p.ascendingNodeTime.n) \div 5)]

\* str(frame.polarization).replace('/', ''), then [2:4] of a bytes rendering b'..'
StripmapPolarization(raw) ==
    LET s == RemoveChar(raw, "/") IN
    IF StartsWith(s, <<"b","'">>) THEN SubSeq(s, 3, IF Len(s) < 4 THEN Len(s) ELSE 4)
    ELSE s

\* extract_stripmap_metadata(meta_file)[0]: [exc, metadata]
extract_stripmap_metadata(meta_file, p) ==
    IF meta_file # DATA_DAT /\ ~EndsWith(meta_file, <<".","x","m","l">>)
    THEN [exc |-> "ValueError", metadata |-> EmptyDict]
    ELSE
    LET rgBandwidth == Mul(p.pulseLength, p.chirpSlope)
        ratio == Div(PyInt(SPEED_OF_LIGHT), Mul(PyFloat(2, 1), rgBandwidth))
    IN [exc |-> "",
        metadata |->
          [prf |-> p.prf,
           startUTC |-> p.startUTC,
           stopUTC |-> p.stopUTC,
           radarWavelength |-> p.radarWavelength,
           startingRange |-> p.startingRange,
           polarization |-> PyText(StripmapPolarization(p.polarization)),
           trackNumber |-> p.trackNumber,
           orbitNumber |-> p.orbitNumber,
           CENTER_LINE_UTC |-> PyFloat(p.startUTC.n, 1),
           azimuthResolution |-> Div(p.antennaLength, PyFloat(2, 1)),
           azimuthPixelSize |-> Div(p.Vs, p.prf),
           rangeResolution |-> PyFloat(Abs(ratio.n), ratio.d),
           rangePixelSize |-> p.rangePixelSize,
           earthRadius |-> p.pegRadCur,
           altitude |-> p.altitude,
           beam_mode |-> PyText(<<"S","M">>)]]

----------------------------------------------------------------------------
(* The geometry directory *)

MaxLooks == 2

BaseLength == 20

BaseWidth == 10

GeomNames == {"hgt", "lat", "lon", "los", "shadowMask", "incLocal"}

\* what is on disk for one raster base name: <name>.rdr, <name>.rdr.full.xml, the
\* LENGTH/WIDTH of the raster and of its full-resolution original
Raster(rdr, full, fullLength, fullWidth) ==
    [rdr |-> rdr, full |-> full, LENGTH |-> BaseLength, WIDTH |-> BaseWidth,
     fullLENGTH |-> fullLength, fullWIDTH |-> fullWidth]

Listing(present, fullAt, fullLength, fullWidth) ==
    [name \in GeomNames |->
        Raster(name \in present, name \in present /\ name = fullAt, fullLength, fullWidth)]

\* the full-resolution sizes: not always a multiple of the multilooked size
FullLengths == {BaseLength * a + 5 : a \in 1..MaxLooks}

FullWidths == {BaseWidth * r : r \in 1..MaxLooks}

GeomListings ==
    {Listing({}, "", BaseLength, BaseWidth)}
    \cup {Listing(present, "", BaseLength, BaseWidth) :
            present \in {{"hgt", "lat", "lon", "los"}, {"lat", "incLocal"}}}
    \cup {Listing(present, fullAt, fl, fw) :
            present \in {{"hgt", "lat", "lon", "los"}, GeomNames},
            fullAt \in {"hgt", "lat"}, fl \in FullLengths, fw \in FullWidths}

\* the az band mean of los.rdr, in degrees
LosAzimuth == -100

\* np.round(x / 360.), x an integer: nearest integer, ties to the even one
Round360(x) ==
    LET r == (2 * x + 360) \div 720 IN
    IF (2 * x + 360) % 720 = 0 /\ r % 2 # 0 THEN r - 1 ELSE r

\* the ALOOKS/RLOOKS of the first base name of names whose raster has a .full.xml:
\* <<>> when there is none, else <<[ALOOKS, RLOOKS]>>
RECURSIVE FirstFullXml(_, _)
FirstFullXml(g, names) ==
    IF names = <<>> THEN <<>>
    ELSE LET r == g[Head(names)] IN
         IF r.rdr /\ r.full
         THEN <<[ALOOKS |-> PyInt(r.fullLENGTH \div r.LENGTH),
                 RLOOKS |-> PyInt(r.fullWIDTH \div r.WIDTH)]>>
         ELSE FirstFullXml(g, Tail(names))

\* NCORRLOOKS of a metadata dict that holds ALOOKS and RLOOKS
NCorrLooks(m) ==
    LET rgfact == Div(m["rangeResolution"], m["rangePixelSize"])
        azfact == Div(m["azimuthResolution"], m["azimuthPixelSize"])
    IN Div(Mul(m["RLOOKS"], m["ALOOKS"]), Mul(rgfact, azfact))

extract_multilook_number(g, md) ==
    LET found == FirstFullXml(g, <<"hgt", "lat", "lon", "los">>)
        m1 == IF found = <<>> THEN md
              ELSE Put(Put(md, "ALOOKS", found[1].ALOOKS), "RLOOKS", found[1].RLOOKS)
        m2 == IF "ALOOKS" \in DOMAIN m1 THEN m1 ELSE Put(m1, "ALOOKS", PyInt(1))
        m3 == IF "RLOOKS" \in DOMAIN m2 THEN m2 ELSE Put(m2, "RLOOKS", PyInt(1))
    IN Put(m3, "NCORRLOOKS", NCorrLooks(m3))

\* metadata['rangePixelSize'] *= RLOOKS; metadata['azimuthPixelSize'] *= ALOOKS
MultilookPixelSize(m) ==
    [m EXCEPT !["rangePixelSize"] = Mul(m["rangePixelSize"], m["RLOOKS"]),
              !["azimuthPixelSize"] = Mul(m["azimuthPixelSize"], m["ALOOKS"])]

\* LAT_REF1..4 / LON_REF1..4 of lat.rdr / lon.rdr: str() of four raster corners
CornerRefs(g, m) ==
    LET lat == IF g["lat"].rdr
               THEN [k \in {"LAT_REF1", "LAT_REF2", "LAT_REF3", "LAT_REF4"} |->
                        PyStr(PyFloat(IF k \in {"LAT_REF1", "LAT_REF2"} THEN 31 ELSE 33, 1))]
               ELSE EmptyDict
        lon == IF g["lon"].rdr
               THEN [k \in {"LON_REF1", "LON_REF2", "LON_REF3", "LON_REF4"} |->
                        PyStr(PyFloat(IF k \in {"LON_REF1", "LON_REF3"} THEN 130 ELSE 131, 1))]
               ELSE EmptyDict
    IN Update(Update(m, lat), lon)

\* HEADING from los.rdr: the isce azimuth angle as a roipac orbit heading angle
Heading(g, m) ==
    IF g["los"].rdr
    THEN LET h == -1 * (270 + LosAzimuth) IN
         Put(m, "HEADING", PyStr(PyFloat(h - Round360(h) * 360, 1)))
    ELSE m

\* the mutant: the pixel sizes are multilooked before NCORRLOOKS is computed
extract_geometry_metadata_mut(g, md) ==
    LET found == FirstFullXml(g, <<"hgt", "lat", "lon", "los">>)
        m1 == IF found = <<>> THEN md
              ELSE Put(Put(md, "ALOOKS", found[1].ALOOKS), "RLOOKS", found[1].RLOOKS)
        m2 == IF "ALOOKS" \in DOMAIN m1 THEN m1 ELSE Put(m1, "ALOOKS", PyInt(1))
        m3 == IF "RLOOKS" \in DOMAIN m2 THEN m2 ELSE Put(m2, "RLOOKS", PyInt(1))
        m4 == MultilookPixelSize(m3)
    IN Heading(g, CornerRefs(g, Put(m4, "NCORRLOOKS", NCorrLooks(m4))))

extract_geometry_metadata(g, md) ==
    Heading(g, CornerRefs(g, MultilookPixelSize(extract_multilook_number(g, md))))

----------------------------------------------------------------------------
(* extract_isce_metadata *)

MaxTime == 2

\* ut.run_or_skip(rsc_file, in_file=meta_file, check_readable=False): "skip" when
\* the output exists and is not older than the input (t_out = 0: no such file)
run_or_skip(t_out, t_in) ==
    IF t_out = 0 THEN "run"
    ELSE IF t_in > t_out THEN "run"
    ELSE "skip"

\* standard names of MintPy for the keys of an ISCE metadata dict
StandardKeys ==
    {<<"altitude", "HEIGHT">>, <<"azimuthPixelSize", "AZIMUTH_PIXEL_SIZE">>,
     <<"rangePixelSize", "RANGE_PIXEL_SIZE">>, <<"earthRadius", "EARTH_RADIUS">>,
     <<"radarWavelength", "WAVELENGTH">>, <<"startingRange", "STARTING_RANGE">>,
     <<"passDirection", "ORBIT_DIRECTION">>, <<"prf", "PRF">>,
     <<"polarization", "POLARIZATION">>}

\* readfile.standardize_metadata: every item is kept, and a key with a standard
\* name is also stored under that name
standardize_metadata(m) ==
    LET named == {p \in StandardKeys : p[1] \in DOMAIN m /\ p[2] \notin DOMAIN m} IN
    [k \in DOMAIN m \cup {p[2] : p \in named} |->
        IF k \in DOMAIN m THEN m[k]
        ELSE m[(CHOOSE p \in named : p[2] = k)[1]]]

\* the condition of the early return of extract_isce_metadata
SkipExtraction_mut(update_mode, t_out, t_in) ==
    run_or_skip(t_out, t_in) = "skip"

SkipExtraction(update_mode, t_out, t_in) ==
    update_mode /\ run_or_skip(t_out, t_in) = "skip"

\* for key, value in metadata.items(): metadata[key] = str(value)
Stringify_mut(m) ==
    [k \in DOMAIN m |-> IF k \in {"ALOOKS", "RLOOKS"} THEN m[k] ELSE PyStr(m[k])]

Stringify(m) == [k \in DOMAIN m |-> PyStr(m[k])]

\* steps 1 to 3 of extract_isce_metadata and the conversion to str, before the
\* .rsc file is written: [exc, metadata]
ExtractAnew(meta_file, dir, p, geom_dir, g) ==
    LET proc == get_processor(meta_file, dir)
        first == IF proc.exc # "" THEN [exc |-> proc.exc, metadata |-> EmptyDict]
                 ELSE IF proc.processor = "tops"
                 THEN [exc |-> "", metadata |-> extract_tops_metadata(meta_file, dir, p)]
                 ELSE extract_stripmap_metadata(meta_file, p)
    IN IF first.exc # "" THEN first
       ELSE LET m2 == IF Truthy(geom_dir)
                      THEN extract_geometry_metadata(g, first.metadata)
                      ELSE first.metadata
                m3 == Put(Put(m2, "PROCESSOR", PyText(<<"i","s","c","e">>)),
                          "ANTENNA_SIDE", PyText(<<"-","1">>))
            IN [exc |-> "", metadata |-> standardize_metadata(Stringify(m3))]

\* extract_isce_metadata(meta_file, geom_dir, update_mode=...): what it returns,
\* what it leaves in data.rsc, and whether it skipped
extract_isce_metadata(meta_file, dir, p, geom_dir, g, update_mode, times, old_rsc) ==
    IF SkipExtraction(update_mode, times.rsc, times.meta)
    THEN [exc |-> "", how |-> "skip", metadata |-> old_rsc[1], rsc |-> old_rsc,
          rsc_time |-> times.rsc]
    ELSE LET r == ExtractAnew(meta_file, dir, p, geom_dir, g) IN
         IF r.exc # ""
         THEN [exc |-> r.exc, how |-> "run", metadata |-> EmptyDict, rsc |-> old_rsc,
               rsc_time |-> times.rsc]
         ELSE [exc |-> "", how |-> "run", metadata |-> r.metadata,
               rsc |-> Some(r.metadata), rsc_time |-> MaxTime + 1]

----------------------------------------------------------------------------
(* Dates, pair directories and sorting *)

D1 == <<"2","0","1","4","1","2","1","3">>

D2 == <<"2","0","1","4","1","2","2","5">>

D3 == <<"2","0","1","5","0","1","0","6">>

\* date 1 once more, in YYMMDD format
S1 == <<"1","4","1","2","1","3">>

\* '<date1>_<date2>'
PairName(a, b) == a \o <<"_">> \o b

\* sorted(glob.glob(...)) of files that differ in their directory name
RECURSIVE SortByDir(_)
SortByDir(files) ==
    IF files = {} THEN <<>>
    ELSE LET f == CHOOSE x \in files : \A y \in files : x = y \/ StrLess(x.dir, y.dir)
         IN <<f>> \o SortByDir(files \ {f})

----------------------------------------------------------------------------
(* add_ifgram_metadata *)

\* a dict (or None) as an if-condition
DictTruthy(opt) == opt # None /\ DOMAIN opt[1] # {}

\* the mutant: the baseline of date 1 relative to date 2
add_ifgram_metadata_mut(metadata_in, dates, bdict) ==
    IF Len(dates) < 2 THEN [exc |-> "IndexError", metadata |-> EmptyDict]
    ELSE
    LET m1 == Put([k \in DOMAIN metadata_in |-> metadata_in[k]], "DATE12",
                  PyText(SliceFrom(dates[1], 2) \o <<"-">> \o SliceFrom(dates[2], 2)))
    IN IF ~DictTruthy(bdict) THEN [exc |-> "", metadata |-> m1]
       ELSE IF ~({dates[1], dates[2]} \subseteq DOMAIN bdict[1])
       THEN [exc |-> "KeyError", metadata |-> EmptyDict]
       ELSE LET b == bdict[1]
                bperp_top == Sub(b[dates[1]][1], b[dates[2]][1])
                bperp_bottom == Sub(b[dates[1]][2], b[dates[2]][2])
            IN [exc |-> "",
                metadata |-> Put(Put(m1, "P_BASELINE_TOP_HDR", PyStr(bperp_top)),
                                 "P_BASELINE_BOTTOM_HDR", PyStr(bperp_bottom))]

\* add_ifgram_metadata(metadata_in, dates, baseline_dict): [exc, metadata]; dates
\* is the Python list, so dates[0] is dates[1] here
add_ifgram_metadata(metadata_in, dates, bdict) ==
    IF Len(dates) < 2 THEN [exc |-> "IndexError", metadata |-> EmptyDict]
    ELSE
    LET m1 == Put([k \in DOMAIN metadata_in |-> metadata_in[k]], "DATE12",
                  PyText(SliceFrom(dates[1], 2) \o <<"-">> \o SliceFrom(dates[2], 2)))
    IN IF ~DictTruthy(bdict) THEN [exc |-> "", metadata |-> m1]
       ELSE IF ~({dates[1], dates[2]} \subseteq DOMAIN bdict[1])
       THEN [exc |-> "KeyError", metadata |-> EmptyDict]
       ELSE LET b == bdict[1]
                bperp_top == Sub(b[dates[2]][1], b[dates[1]][1])
                bperp_bottom == Sub(b[dates[2]][2], b[dates[1]][2])
            IN [exc |-> "",
                metadata |-> Put(Put(m1, "P_BASELINE_TOP_HDR", PyStr(bperp_top)),
                                 "P_BASELINE_BOTTOM_HDR", PyStr(bperp_bottom))]

----------------------------------------------------------------------------
(* The baselines directory.  A baseline file is [name, bperps, top, bottom]:   *)
(* its base name, the "Bperp (average)" values of a topsStack file and the    *)
(* PERP_BASELINE_TOP / PERP_BASELINE_BOTTOM values of a stripmapStack file.   *)

RECURSIVE SumSeq(_)
SumSeq(q) == IF q = <<>> THEN 0 ELSE Head(q) + SumSeq(Tail(q))

\* [np.mean(bperps), np.mean(bperps)]
read_tops_baseline(file) ==
    LET mean == PyFloat(SumSeq(file.bperps), Len(file.bperps)) IN <<mean, mean>>

read_stripmap_baseline(file) == <<PyFloat(file.top, 1), PyFloat(file.bottom, 1)>>

TXT == <<".","t","x","t">>

\* os.path.basename(i).split('_')[0]
FileDate1(file) == Split(file.name, "_")[1]

\* os.path.basename(bFile).split('.txt')[0].split('_')
FileDates(file) == Split(SubSeq(file.name, 1, Len(file.name) - Len(TXT)), "_")

\* ut.most_common(L): the items of L no other item occurs more often than
most_common(files) ==
    LET count(d) == Cardinality({f \in files : FileDate1(f) = d}) IN
    {FileDate1(f) : f \in {g \in files : \A h \in files : count(FileDate1(h)) <= count(FileDate1(g))}}

\* the mutant: the files of another reference date are read as well
BaselineFilesOf_mut(files, date1) == files

\* bFiles = [i for i in bFiles if os.path.basename(i).split('_')[0] == date1]
BaselineFilesOf(files, date1) == {f \in files : FileDate1(f) = date1}

\* read_baseline_timeseries(baseline_dir, processor), date1 being what most_common
\* returned: [exc, bDict], bDict None (<<>>) or <<dict>>
read_baseline_timeseries(files, processor, date1) ==
    IF processor \notin {"tops", "stripmap"} THEN [exc |-> "ValueError", bDict |-> None]
    ELSE IF files = {} THEN [exc |-> "", bDict |-> None]
    ELSE LET kept == BaselineFilesOf(files, date1)
             read(f) == IF processor = "tops" THEN read_tops_baseline(f)
                        ELSE read_stripmap_baseline(f)
             seconds == {FileDates(f)[2] : f \in kept}
         IN [exc |-> "",
             bDict |-> Some([d \in seconds \cup {date1} |->
                               IF d = date1 THEN <<PyInt(0), PyInt(0)>>
                               ELSE read(CHOOSE f \in kept : FileDates(f)[2] = d)])]

----------------------------------------------------------------------------
(* prepare_geometry and prepare_stack *)

\* the items of a dict
Items(d) == {<<k, d[k]>> : k \in DOMAIN d}

\* writefile.write_roipac_rsc(metadata, out_file, update_mode): the content of
\* out_file afterwards; in update mode a file that already holds every item of
\* metadata is left alone
write_roipac_rsc(md, existing, update_mode) ==
    LET rsc_dict == IF existing = None THEN EmptyDict ELSE existing[1] IN
    IF update_mode /\ Items(md) \subseteq Items(rsc_dict) THEN existing
    ELSE Some(md)

\* readfile.read_attribute(isce_file, metafile_ext='.xml') of a geometry raster
GeomAttribute(raster) ==
    [LENGTH |-> PyStr(PyInt(raster.LENGTH)), WIDTH |-> PyStr(PyInt(raster.WIDTH)),
     PROCESSOR |-> PyText(<<"i","s","c","e">>), FILE_TYPE |-> PyText(<<".","r","d","r">>)]

\* the mutant: the file's own attributes win over the common metadata
MergeCommon_mut(attr, md) == Update(md, attr)

\* m = readfile.read_attribute(...); m.update(metadata)
MergeCommon(attr, md) == Update(attr, md)

\* prepare_geometry(geom_dir, metadata, update_mode): the .rsc files afterwards
prepare_geometry(g, md, update_mode, rscs) ==
    LET isce_files == {name \in GeomNames : g[name].rdr}
        prior(name) == IF name \in DOMAIN rscs THEN Some(rscs[name]) ELSE None
        after(name) == write_roipac_rsc(MergeCommon(GeomAttribute(g[name]), md),
                                        prior(name), update_mode)
    IN [name \in {n \in DOMAIN rscs \cup isce_files :
                     n \notin isce_files \/ after(n) # None} |->
           IF name \in isce_files THEN after(name)[1] ELSE rscs[name]]

\* the loop of prepare_stack over the sorted files; acc is [exc, metadata, rsc, out]:
\* the exception that ended it, the common metadata dict, the .rsc files and what
\* add_ifgram_metadata returned for each file so far
RECURSIVE StackLoop(_, _, _, _)
StackLoop(files, acc, bdict, update_mode) ==
    IF files = <<>> \/ acc.exc # "" THEN acc
    ELSE LET isce_file == Head(files)
             ifg_metadata == MergeCommon(isce_file.attr, acc.metadata)
             dates == Split(isce_file.dir, "_")
             r == add_ifgram_metadata(ifg_metadata, dates, bdict)
             prior == IF isce_file.dir \in DOMAIN acc.rsc
                      THEN Some(acc.rsc[isce_file.dir]) ELSE None
         IN IF r.exc # "" THEN [acc EXCEPT !.exc = r.exc]
            ELSE StackLoop(Tail(files),
                           [acc EXCEPT !.rsc = Put(acc.rsc, isce_file.dir,
                                   write_roipac_rsc(r.metadata, prior, update_mode)[1]),
                                       !.out = Put(acc.out, isce_file.dir, r.metadata)],
                           bdict, update_mode)

\* the mutant: the loop stops one file short
prepare_stack_mut(files, md, bdict, update_mode, rscs) ==
    LET isce_files == SortByDir(files) IN
    IF Len(isce_files) = 0
    THEN [exc |-> "FileNotFoundError", metadata |-> md, rsc |-> rscs, out |-> EmptyDict]
    ELSE StackLoop(SubSeq(isce_files, 1, Len(isce_files) - 1),
                   [exc |-> "", metadata |-> md, rsc |-> rscs, out |-> EmptyDict],
                   bdict, update_mode)

\* prepare_stack(inputDir, filePattern, metadata, baseline_dict, update_mode);
\* files are the files the glob matches
prepare_stack(files, md, bdict, update_mode, rscs) ==
    LET isce_files == SortByDir(files) IN
    IF Len(isce_files) = 0
    THEN [exc |-> "FileNotFoundError", metadata |-> md, rsc |-> rscs, out |-> EmptyDict]
    ELSE StackLoop(isce_files,
                   [exc |-> "", metadata |-> md, rsc |-> rscs, out |-> EmptyDict],
                   bdict, update_mode)

----------------------------------------------------------------------------
(* Inputs: command lines and what is on disk when the run starts *)

GEOM_DIR == <<"g","e","o","m">>

IFG_DIR == <<"i","f","g">>

BASELINE_DIR == <<"b","a","s","e">>

\* a data.rsc left by an earlier run
OldRsc ==
    [PROCESSOR |-> PyText(<<"i","s","c","e">>), ANTENNA_SIDE |-> PyText(<<"-","1">>),
     LENGTH |-> PyStr(PyInt(99)), WAVELENGTH |-> PyStr(PyFloat(56, 1000))]

\* readfile.read_attribute(isce_file, metafile_ext='.xml') of an interferogram file
IfgAttribute ==
    [LENGTH |-> PyStr(PyInt(BaseLength)), WIDTH |-> PyStr(PyInt(BaseWidth)),
     PROCESSOR |-> PyText(<<"i","s","c","e">>), FILE_TYPE |-> PyText(<<".","u","n","w">>)]

IfgFile(a, b) == [dir |-> PairName(a, b), attr |-> IfgAttribute]

DateIndex(d) == IF d = D1 THEN 1 ELSE IF d = D2 THEN 2 ELSE IF d = D3 THEN 3 ELSE 4

\* the baseline file <a>_<b>.txt, in one of two variants of its content
BFile(a, b, v) ==
    [name |-> PairName(a, b) \o TXT,
     bperps |-> IF v = 1 THEN <<10 * DateIndex(b), 10 * DateIndex(b) + DateIndex(a)>>
                ELSE <<-7 * DateIndex(b)>>,
     top |-> IF v = 1 THEN 100 * DateIndex(b) + DateIndex(a) ELSE -30 * DateIndex(b),
     bottom |-> IF v = 1 THEN 110 * DateIndex(b) + DateIndex(a) ELSE -35 * DateIndex(b)]

MaxBaselineFiles == 3

MaxIfgs == 2

BDates == {D1, D2, D3}

IfgDates == {D1, D2, S1}

\* the pairs of acquisitions a baseline file is computed for: two different dates
BPairs == {p \in BDates \X BDates : p[1] # p[2]}

\* the baselines directories: up to MaxBaselineFiles files '<date1>_<date2>.txt'
BaselineDirs ==
    {{BFile(p[1], p[2], v) : p \in P} :
        P \in {Q \in SUBSET BPairs : Cardinality(Q) <= MaxBaselineFiles},
        v \in 1..2}

\* the interferogram directories: up to MaxIfgs pair directories with a matching file
IfgDirs ==
    {{IfgFile(p[1], p[2]) : p \in P} :
        P \in {Q \in SUBSET (IfgDates \X IfgDates) : Cardinality(Q) <= MaxIfgs}}

\* what the run of main() finds in its baselines and interferogram directories
MainBaselineDirs == {{}, {BFile(D1, D2, 1), BFile(D1, D3, 1), BFile(D2, D3, 2)}}

MainIfgDirs == {{}, {IfgFile(D1, D2), IfgFile(D2, D3)}}

\* the geometry directories of the run of main(): a part of GeomListings
MainGeomListings ==
    {Listing({"hgt", "lat", "lon", "los"}, "", BaseLength, BaseWidth),
     Listing({"lat", "incLocal"}, "", BaseLength, BaseWidth),
     Listing(GeomNames, "hgt", BaseLength * MaxLooks + 5, BaseWidth * MaxLooks)}

Times(meta, rsc) == [meta |-> meta, rsc |-> rsc, rsc_now |-> rsc]

\* data.rsc of the run of main(): absent, as new as the metadata file, or older
MainTimes == {Times(1, 0), Times(1, 1), Times(2, 1)}

NoGeom == Listing({}, "", BaseLength, BaseWidth)

NoCall == [fn |-> "", metadata |-> EmptyDict, rsc |-> EmptyDict]

NoArgs ==
    [ifgramDir |-> None, geometryDir |-> None, metaFile |-> None, baselineDir |-> None,
     update_mode |-> TRUE, processor |-> ""]

\* the directories of a metadata file: the file and any of its possible siblings
MetaDirs(meta_file) == {{meta_file} \cup S : S \in SUBSET Siblings}

\* the state before main() runs
Init ==
    /\ pc = "cmd_line_parse"
    /\ exc = ""
    /\ inps \in [ifgramDir : {None, Some(IFG_DIR)},
                 geometryDir : {None, Some(GEOM_DIR)},
                 metaFile : {None} \cup {Some(f) : f \in MetaFiles},
                 baselineDir : {None, Some(BASELINE_DIR)},
                 update_mode : BOOLEAN,
                 processor : {""}]
    /\ metaDir \in IF inps.metaFile = None THEN {{}} ELSE MetaDirs(inps.metaFile[1])
    /\ mtime \in IF inps.metaFile = None THEN {Times(1, 0)} ELSE MainTimes
    /\ data_rsc = IF mtime.rsc = 0 THEN None ELSE Some(OldRsc)
    /\ product = ProductA
    /\ geom \in IF inps.geometryDir = None THEN {NoGeom} ELSE MainGeomListings
    /\ extracted = ""
    /\ metadata = EmptyDict
    /\ geom_rsc = EmptyDict
    /\ bfiles \in IF inps.baselineDir = None THEN {{}} ELSE MainBaselineDirs
    /\ baseline_dict = Some(EmptyDict)
    /\ ifgs \in IF inps.ifgramDir = None THEN {{}} ELSE MainIfgDirs
    /\ ifg_rsc = EmptyDict
    /\ ifg_meta = EmptyDict
    /\ at_call = NoCall

\* extract_isce_metadata called on any metadata file, directory and scene
InitExtract ==
    /\ pc = "extract"
    /\ exc = ""
    /\ \E f \in MetaFiles, gd \in {None, Some(GEOM_DIR)}, u \in BOOLEAN :
         inps = [NoArgs EXCEPT !.metaFile = Some(f), !.geometryDir = gd, !.update_mode = u]
    /\ metaDir \in MetaDirs(inps.metaFile[1])
    /\ mtime \in {Times(t_in, t_out) : t_in \in 1..MaxTime, t_out \in 0..MaxTime}
    /\ data_rsc = IF mtime.rsc = 0 THEN None ELSE Some(OldRsc)
    /\ product \in Products
    /\ geom \in IF inps.geometryDir = None THEN {NoGeom} ELSE GeomListings
    /\ extracted = ""
    /\ metadata = EmptyDict
    /\ geom_rsc = EmptyDict
    /\ bfiles = {}
    /\ baseline_dict = Some(EmptyDict)
    /\ ifgs = {}
    /\ ifg_rsc = EmptyDict
    /\ ifg_meta = EmptyDict
    /\ at_call = NoCall

\* read_baseline_timeseries called on any baselines directory and processor name
InitBaseline ==
    /\ pc = "baseline"
    /\ exc = ""
    /\ \E p \in {"tops", "stripmap", "roipac"} :
         inps = [NoArgs EXCEPT !.baselineDir = Some(BASELINE_DIR), !.processor = p]
    /\ metaDir = {}
    /\ mtime = Times(1, 0)
    /\ data_rsc = None
    /\ product = ProductA
    /\ geom = NoGeom
    /\ extracted = ""
    /\ metadata = EmptyDict
    /\ geom_rsc = EmptyDict
    /\ bfiles \in BaselineDirs
    /\ baseline_dict = Some(EmptyDict)
    /\ ifgs = {}
    /\ ifg_rsc = EmptyDict
    /\ ifg_meta = EmptyDict
    /\ at_call = NoCall

\* the common metadata dicts main() can hold: none, an old data.rsc, a new extraction
CommonMetadatas ==
    {EmptyDict, OldRsc, ExtractAnew(IW1_XML, {IW1_XML}, ProductA, None, NoGeom).metadata}

\* every baseline dict read_baseline_timeseries can return (None is <<>>), and {}
BaselineDicts ==
    {Some(EmptyDict), None}
    \cup UNION {{read_baseline_timeseries(files, p, date1).bDict :
                    date1 \in most_common(files), p \in {"tops", "stripmap"}} :
                files \in BaselineDirs \ {{}}}

StaleRsc == [LENGTH |-> PyStr(PyInt(7)), OLD_KEY |-> PyText(<<"x">>)]

\* the sidecars of an earlier run: none, stale ones, or those a forced run of
\* the same call writes (with a key of their own)
PriorGeomRscs(g, md) ==
    {EmptyDict,
     [name \in {n \in GeomNames : g[n].rdr} |-> StaleRsc],
     LET forced == prepare_geometry(g, md, FALSE, EmptyDict) IN
        [name \in DOMAIN forced |-> Put(forced[name], "OLD_KEY", PyText(<<"x">>))]}

PriorIfgRscs(files, md, bdict) ==
    {EmptyDict,
     [dir \in {f.dir : f \in files} |-> StaleRsc],
     LET forced == prepare_stack(files, md, bdict, FALSE, EmptyDict).rsc IN
        [dir \in DOMAIN forced |-> Put(forced[dir], "OLD_KEY", PyText(<<"x">>))]}

\* prepare_geometry or prepare_stack called on any directory, common metadata,
\* baseline dict and earlier sidecars
InitStack ==
    /\ exc = ""
    /\ metaDir = {}
    /\ mtime = Times(1, 0)
    /\ data_rsc = None
    /\ product = ProductA
    /\ extracted = ""
    /\ metadata \in CommonMetadatas
    /\ bfiles = {}
    /\ ifg_meta = EmptyDict
    /\ at_call = NoCall
    /\ \/ /\ pc = "geometry"
          /\ \E u \in BOOLEAN :
               inps = [NoArgs EXCEPT !.geometryDir = Some(GEOM_DIR), !.update_mode = u]
          /\ geom \in GeomListings
          /\ geom_rsc \in PriorGeomRscs(geom, metadata)
          /\ baseline_dict = Some(EmptyDict)
          /\ ifgs = {}
          /\ ifg_rsc = EmptyDict
       \/ /\ pc = "stack"
          /\ \E u \in BOOLEAN :
               inps = [NoArgs EXCEPT !.ifgramDir = Some(IFG_DIR), !.update_mode = u]
          /\ geom = NoGeom
          /\ geom_rsc = EmptyDict
          /\ baseline_dict \in BaselineDicts
          /\ ifgs \in IfgDirs
          /\ ifg_rsc \in PriorIfgRscs(ifgs, metadata, baseline_dict)

----------------------------------------------------------------------------
(* The steps of main() *)

\* inps = cmd_line_parse(iargs)
CmdLineParse ==
    /\ pc = "cmd_line_parse"
    /\ LET e == cmd_line_parse(inps) IN
        /\ exc' = e
        /\ pc' = IF e = "" THEN "get_processor" ELSE "raised"
    /\ UNCHANGED <<inps, metaDir, mtime, data_rsc, product, geom, extracted, metadata,
                   geom_rsc, bfiles, baseline_dict, ifgs, ifg_rsc, ifg_meta, at_call>>

\* inps.processor = get_processor(inps.metaFile)
GetProcessor ==
    /\ pc = "get_processor"
    /\ LET r == get_processor_opt(inps.metaFile, metaDir) IN
        /\ exc' = r.exc
        /\ inps' = [inps EXCEPT !.processor = r.processor]
        /\ pc' = IF r.exc = "" THEN "extract" ELSE "raised"
    /\ UNCHANGED <<metaDir, mtime, data_rsc, product, geom, extracted, metadata,
                   geom_rsc, bfiles, baseline_dict, ifgs, ifg_rsc, ifg_meta, at_call>>

\* metadata = {}; if inps.metaFile: metadata = extract_isce_metadata(...)
Extract ==
    /\ pc = "extract"
    /\ IF Truthy(inps.metaFile)
       THEN LET r == extract_isce_metadata(inps.metaFile[1], metaDir, product,
                                           inps.geometryDir, geom, inps.update_mode,
                                           mtime, data_rsc)
            IN /\ exc' = r.exc
               /\ extracted' = r.how
               /\ metadata' = r.metadata
               /\ data_rsc' = r.rsc
               /\ mtime' = [mtime EXCEPT !.rsc_now = r.rsc_time]
               /\ pc' = IF r.exc = "" THEN "geometry" ELSE "raised"
       ELSE /\ metadata' = EmptyDict
            /\ pc' = "geometry"
            /\ UNCHANGED <<exc, extracted, data_rsc, mtime>>
    /\ UNCHANGED <<inps, metaDir, product, geom, geom_rsc, bfiles, baseline_dict,
                   ifgs, ifg_rsc, ifg_meta, at_call>>

\* if inps.geometryDir: metadata = prepare_geometry(...)
PrepareGeometry ==
    /\ pc = "geometry"
    /\ IF Truthy(inps.geometryDir)
       THEN /\ geom_rsc' = prepare_geometry(geom, metadata, inps.update_mode, geom_rsc)
            /\ at_call' = [fn |-> "prepare_geometry", metadata |-> metadata,
                           rsc |-> geom_rsc]
       ELSE UNCHANGED <<geom_rsc, at_call>>
    /\ pc' = "baseline"
    /\ UNCHANGED <<exc, inps, metaDir, mtime, data_rsc, product, geom, extracted,
                   metadata, bfiles, baseline_dict, ifgs, ifg_rsc, ifg_meta>>

\* baseline_dict = {}; if inps.baselineDir: baseline_dict = read_baseline_timeseries(...)
ReadBaseline ==
    /\ pc = "baseline"
    /\ IF Truthy(inps.baselineDir)
       THEN \E date1 \in IF bfiles = {} THEN {D1} ELSE most_common(bfiles) :
              LET r == read_baseline_timeseries(bfiles, inps.processor, date1) IN
                /\ exc' = r.exc
                /\ baseline_dict' = r.bDict
                /\ pc' = IF r.exc = "" THEN "stack" ELSE "raised"
       ELSE /\ baseline_dict' = Some(EmptyDict)
            /\ pc' = "stack"
            /\ UNCHANGED exc
    /\ UNCHANGED <<inps, metaDir, mtime, data_rsc, product, geom, extracted, metadata,
                   geom_rsc, bfiles, ifgs, ifg_rsc, ifg_meta, at_call>>

\* if inps.ifgramDir and inps.ifgramFiles: prepare_stack(...); ifgramFiles is the
\* default list of one pattern, and ifgs are the files it matches
PrepareStack ==
    /\ pc = "stack"
    /\ IF Truthy(inps.ifgramDir)
       THEN LET r == prepare_stack(ifgs, metadata, baseline_dict, inps.update_mode,
                                   ifg_rsc)
            IN /\ exc' = r.exc
               /\ metadata' = r.metadata
               /\ ifg_rsc' = r.rsc
               /\ ifg_meta' = r.out
               /\ at_call' = [fn |-> "prepare_stack", metadata |-> metadata,
                              rsc |-> ifg_rsc]
               /\ pc' = IF r.exc = "" THEN "done" ELSE "raised"
       ELSE /\ pc' = "done"
            /\ UNCHANGED <<exc, metadata, ifg_rsc, ifg_meta, at_call>>
    /\ UNCHANGED <<inps, metaDir, mtime, data_rsc, product, geom, extracted,
                   geom_rsc, bfiles, baseline_dict, ifgs>>

Next ==
    \/ CmdLineParse
    \/ GetProcessor
    \/ Extract
    \/ PrepareGeometry
    \/ ReadBaseline
    \/ PrepareStack

Spec == Init /\ [][Next]_vars

NextExtract == Extract

SpecExtract == InitExtract /\ [][NextExtract]_vars

NextBaseline == ReadBaseline

SpecBaseline == InitBaseline /\ [][NextBaseline]_vars

NextStack ==
    \/ PrepareGeometry
    \/ PrepareStack

SpecStack == InitStack /\ [][NextStack]_vars

----------------------------------------------------------------------------
(* Claims about main(), cmd_line_parse and get_processor, under Spec *)

XML == <<".","x","m","l">>

\* C1: any one of -i, -g, -m is enough for a run: cmd_line_parse raises SystemExit
\* only when all three are absent, and without -m (but with -g or -i) main goes on
\* with empty common metadata, past the extraction, to the geometry and
\* interferogram steps, raising no error on the way there.
C1_AnyOneArgumentSuffices ==
    /\ exc = "SystemExit" =>
          inps.ifgramDir = None /\ inps.geometryDir = None /\ inps.metaFile = None
    /\ (inps.metaFile = None /\ (inps.geometryDir # None \/ inps.ifgramDir # None)) =>
          /\ pc # "cmd_line_parse" => exc \notin {"SystemExit", "TypeError", "ValueError"}
          /\ pc \in {"geometry", "baseline", "stack", "done"} =>
                extracted = "" /\ at_call.metadata = EmptyDict

\* C3: get_processor gives 'tops' if a file IW*.xml lies in the metadata file's
\* directory, else 'stripmap' if data.dat lies there or the path ends with '.xml',
\* else it raises ValueError; it returns nothing else.
C3_GetProcessorClassifies ==
    (pc \notin {"cmd_line_parse", "get_processor"} /\ inps.metaFile # None) =>
        LET tops == \E f \in metaDir :
                        Len(f) >= 6 /\ SubSeq(f, 1, 2) = <<"I","W">>
                        /\ SubSeq(f, Len(f) - 3, Len(f)) = XML
            stripmap == DATA_DAT \in metaDir \/ EndsWith(inps.metaFile[1], XML)
        IN /\ inps.processor \in {"tops", "stripmap", ""}
           /\ inps.processor = "tops" <=> tops
           /\ inps.processor = "stripmap" <=> (~tops /\ stripmap)
           /\ inps.processor = "" <=> (~tops /\ ~stripmap)
           /\ inps.processor = "" => (pc = "raised" /\ exc = "ValueError")
           /\ inps.processor # "" => (pc = "extract" \/ extracted # "")

\* C3's case: a subswath file wins over data.dat and over the '.xml' ending
C3_Witness ==
    /\ inps.processor = "tops"
    /\ DATA_DAT \in metaDir
    /\ inps.metaFile = Some(SLC_XML)

----------------------------------------------------------------------------
(* Claims about extract_isce_metadata, under SpecExtract *)

\* the call has returned or raised
ExtractCalled == pc # "extract"

\* update_mode is true, data.rsc existed and was not older than the metadata file
RscIsCurrent == inps.update_mode /\ mtime.rsc # 0 /\ mtime.rsc >= mtime.meta

\* nothing was extracted and data.rsc was not touched; its content was returned
SkippedExtraction ==
    /\ extracted = "skip"
    /\ exc = ""
    /\ metadata = OldRsc
    /\ data_rsc = Some(OldRsc)
    /\ mtime.rsc_now = mtime.rsc

\* the metadata were extracted anew and data.rsc holds them now
WroteAnew ==
    /\ extracted = "run"
    /\ exc = ""
    /\ pc = "geometry"
    /\ {"prf", "startUTC", "beam_mode", "PROCESSOR"} \subseteq DOMAIN metadata
    /\ data_rsc = Some(metadata)
    /\ mtime.rsc_now > mtime.rsc /\ mtime.rsc_now > mtime.meta

\* the metadata file is none extract_isce_metadata knows how to read
UnknownMetaFile ==
    /\ ~\E f \in metaDir : MatchIWxml(f)
    /\ inps.metaFile[1] # DATA_DAT
    /\ ~EndsWith(inps.metaFile[1], XML)

\* the call raised ValueError and left data.rsc as it was
RaisedUnknown ==
    /\ extracted = "run"
    /\ pc = "raised" /\ exc = "ValueError"
    /\ data_rsc = (IF mtime.rsc = 0 THEN None ELSE Some(OldRsc))
    /\ mtime.rsc_now = mtime.rsc

C8_AllValuesAreStrings ==
    (ExtractCalled /\ extracted = "run" /\ exc = "") =>
        /\ \A k \in DOMAIN metadata : metadata[k].t = "str"
        /\ {"PROCESSOR", "ANTENNA_SIDE"} \subseteq DOMAIN metadata
        /\ metadata["PROCESSOR"] = PyText(<<"i","s","c","e">>)
        /\ metadata["ANTENNA_SIDE"] = PyText(<<"-","1">>)
        /\ data_rsc = Some(metadata)

\* C8's case: a stripmap extraction with a multilooked geometry directory, whose
\* look numbers were ints and whose pixel sizes were floats
C8_Witness ==
    /\ ExtractCalled /\ extracted = "run" /\ exc = ""
    /\ inps.metaFile = Some(DATA_DAT)
    /\ inps.geometryDir # None
    /\ "ALOOKS" \in DOMAIN metadata
    /\ metadata["ALOOKS"].of = "int" /\ metadata["ALOOKS"].n = 2
    /\ metadata["rangePixelSize"].of = "float"
    /\ metadata["beam_mode"] = PyText(<<"S","M">>)

\* the number a str was made of
Unstr(v) == [v EXCEPT !.t = v.of]

\* the same extraction without a geometry directory: the single-look pixel sizes
SingleLook == ExtractAnew(inps.metaFile[1], metaDir, product, None, NoGeom).metadata

\* C9: extract_geometry_metadata first determines ALOOKS and RLOOKS (1 each when no
\* geometry raster has a .full.xml), computes NCORRLOOKS = RLOOKS*ALOOKS /
\* ((rangeResolution/rangePixelSize) * (azimuthResolution/azimuthPixelSize)) from
\* the single-look pixel sizes, and only then multiplies rangePixelSize by RLOOKS
\* and azimuthPixelSize by ALOOKS, once; looks of 1 leave the pixel sizes unchanged.
C9_NCorrLooksBeforeMultilook ==
    (ExtractCalled /\ extracted = "run" /\ exc = "" /\ inps.geometryDir # None) =>
        LET rlooks == Unstr(metadata["RLOOKS"])
            alooks == Unstr(metadata["ALOOKS"])
            rgPixel == Unstr(SingleLook["rangePixelSize"])
            azPixel == Unstr(SingleLook["azimuthPixelSize"])
            rgfact == Div(Unstr(metadata["rangeResolution"]), rgPixel)
            azfact == Div(Unstr(metadata["azimuthResolution"]), azPixel)
        IN /\ rlooks.t = "int" /\ alooks.t = "int"
           /\ (\A name \in GeomNames : ~(geom[name].rdr /\ geom[name].full)) =>
                 rlooks.n = 1 /\ alooks.n = 1
           /\ metadata["NCORRLOOKS"] = PyStr(Div(Mul(rlooks, alooks), Mul(rgfact, azfact)))
           /\ metadata["rangePixelSize"] = PyStr(Mul(rgPixel, rlooks))
           /\ metadata["azimuthPixelSize"] = PyStr(Mul(azPixel, alooks))
           /\ (rlooks.n = 1 /\ alooks.n = 1) =>
                 /\ metadata["rangePixelSize"] = SingleLook["rangePixelSize"]
                 /\ metadata["azimuthPixelSize"] = SingleLook["azimuthPixelSize"]

\* C9's case: multilooked geometry, 2 looks in azimuth from a full length that is
\* no multiple of the length, and 2 looks in range
C9_Witness ==
    /\ ExtractCalled /\ extracted = "run" /\ exc = "" /\ inps.geometryDir # None
    /\ metadata["ALOOKS"].n = 2 /\ metadata["RLOOKS"].n = 2
    /\ geom["hgt"].fullLENGTH = 2 * BaseLength + 5
    /\ metadata["rangePixelSize"] # SingleLook["rangePixelSize"]

----------------------------------------------------------------------------
(* Claims about read_baseline_timeseries, under SpecBaseline *)

BaselineCalled == pc # "baseline"

\* the files named '<a>_<b>.txt'
FilesNamed(a, b) == {f \in bfiles : f.name = a \o <<"_">> \o b \o TXT}

\* the number of files whose first date is a
CountFirst(a) == Cardinality(UNION {FilesNamed(a, b) : b \in BDates})

\* a is a most common first date
MostCommonFirst(a) == CountFirst(a) > 0 /\ \A x \in BDates : CountFirst(x) <= CountFirst(a)

\* the [top, bottom] perpendicular baseline of file f
BaselineOf(f) ==
    IF inps.processor = "tops" THEN read_tops_baseline(f) ELSE read_stripmap_baseline(f)

\* the dict returned holds the reference date and the second dates of its files,
\* and nothing else
KeysOfReference(ref) ==
    DOMAIN baseline_dict[1] = {ref} \cup {b \in BDates : FilesNamed(ref, b) # {}}

\* C5: read_baseline_timeseries returns None when no baseline file is found; else
\* a dict whose keys are the reference date (the most common first date among the
\* '<date1>_<date2>.txt' names), mapped to [0, 0], and the second date of every
\* file whose first date is the reference date, each mapped to that file's
\* [top, bottom]; other files add nothing. An unknown processor name raises
\* ValueError.
C5_BaselineDictOfReference ==
    BaselineCalled =>
        IF inps.processor \notin {"tops", "stripmap"}
            THEN pc = "raised" /\ exc = "ValueError"
        ELSE IF bfiles = {}
            THEN exc = "" /\ baseline_dict = None
        ELSE /\ exc = ""
             /\ baseline_dict # None
             /\ \E ref \in BDates :
                   /\ MostCommonFirst(ref)
                   /\ KeysOfReference(ref)
                   /\ baseline_dict[1][ref] = <<PyInt(0), PyInt(0)>>
                   /\ \A b \in BDates : \A f \in FilesNamed(ref, b) :
                         baseline_dict[1][b] = BaselineOf(f)

\* C5's case: two files of the reference date and one of another first date,
\* which is left out
C5_Witness ==
    /\ BaselineCalled /\ exc = "" /\ baseline_dict # None
    /\ Cardinality(bfiles) = 3
    /\ CountFirst(D1) = 2 /\ FilesNamed(D2, D1) # {}
    /\ DOMAIN baseline_dict[1] = {D1, D2, D3}
    /\ inps.processor = "tops"

----------------------------------------------------------------------------
(* Claims about prepare_stack, add_ifgram_metadata and prepare_geometry, under *)
(* SpecStack                                                                   *)

StackCalled == at_call.fn = "prepare_stack"

GeometryCalled == at_call.fn = "prepare_geometry"

\* the pair directories with a matched file
MatchedDirs == {f.dir : f \in ifgs}

\* the two dates a pair directory is named after
Date1Of(dir) == CHOOSE a \in IfgDates : \E b \in IfgDates : dir = a \o <<"_">> \o b

Date2Of(dir) == CHOOSE b \in IfgDates : dir = Date1Of(dir) \o <<"_">> \o b

\* the baseline dict is None or empty
NoBaselines == baseline_dict = None \/ baseline_dict = Some(EmptyDict)

\* the baseline dict holds both dates of every matched pair directory
BaselinesCoverAll ==
    \A dir \in MatchedDirs : {Date1Of(dir), Date2Of(dir)} \subseteq DOMAIN baseline_dict[1]

\* the sidecar files on disk are those of before the call and those of dirs
SidecarsAre(dirs) == DOMAIN ifg_rsc = DOMAIN at_call.rsc \cup dirs

\* C4 as stated: prepare_stack writes one sidecar .rsc for each matched file, for
\* every baseline dict read_baseline_timeseries can return (a date-keyed dict or
\* None) and for the empty dict, so that every matched file has its .rsc when it
\* returns; it raises FileNotFoundError if and only if no file matches.
C4_OneSidecarPerFile ==
    (pc # "stack" /\ inps.ifgramDir # None) =>
        /\ exc = "FileNotFoundError" <=> ifgs = {}
        /\ ifgs # {} => (pc = "done" /\ exc = "" /\ SidecarsAre(MatchedDirs))

\* C4 as amended: the same for a baseline dict that is None, empty, or holds both
\* dates of every matched pair directory; for any other baseline dict
\* prepare_stack raises KeyError, having written the sidecars of the files sorted
\* before the first one with a date the dict lacks, and no other.
C4_OneSidecarPerFileIfCovered ==
    (pc # "stack" /\ inps.ifgramDir # None) =>
        /\ exc = "FileNotFoundError" <=> ifgs = {}
        /\ (ifgs # {} /\ (NoBaselines \/ BaselinesCoverAll)) =>
              (pc = "done" /\ exc = "" /\ SidecarsAre(MatchedDirs))
        /\ (ifgs # {} /\ ~NoBaselines /\ ~BaselinesCoverAll) =>
              /\ pc = "raised" /\ exc = "KeyError"
              /\ \E bad \in MatchedDirs :
                    /\ ~({Date1Of(bad), Date2Of(bad)} \subseteq DOMAIN baseline_dict[1])
                    /\ SidecarsAre({dir \in MatchedDirs : StrLess(dir, bad)})
                    /\ \A dir \in MatchedDirs : StrLess(dir, bad) =>
                          {Date1Of(dir), Date2Of(dir)} \subseteq DOMAIN baseline_dict[1]

\* C4's case: two matched files, a baseline dict of three dates, no sidecar before
C4_Witness ==
    /\ pc = "done" /\ StackCalled
    /\ Cardinality(ifgs) = 2
    /\ baseline_dict # None /\ DOMAIN baseline_dict[1] = {D1, D2, D3}
    /\ at_call.rsc = EmptyDict
    /\ DOMAIN ifg_rsc = MatchedDirs

\* C6: with dates [d1, d2] and a non-empty baseline dict that holds both,
\* add_ifgram_metadata sets P_BASELINE_TOP_HDR to baseline[d2][0] - baseline[d1][0]
\* and P_BASELINE_BOTTOM_HDR to baseline[d2][1] - baseline[d1][1] (swapping the
\* dates negates both, equal dates give zero); with an empty or None baseline dict
\* it adds neither key.
C6_BaselineDifference ==
    StackCalled =>
        \A dir \in DOMAIN ifg_meta :
            LET m == ifg_meta[dir]
                d1 == Date1Of(dir)
                d2 == Date2Of(dir)
                swapped == d2 \o <<"_">> \o d1
            IN IF NoBaselines
               THEN DOMAIN m = DOMAIN at_call.metadata \cup DOMAIN IfgAttribute \cup {"DATE12"}
               ELSE LET b == baseline_dict[1] IN
                    /\ m["P_BASELINE_TOP_HDR"] = PyStr(Sub(b[d2][1], b[d1][1]))
                    /\ m["P_BASELINE_BOTTOM_HDR"] = PyStr(Sub(b[d2][2], b[d1][2]))
                    /\ d1 = d2 => (m["P_BASELINE_TOP_HDR"].n = 0
                                   /\ m["P_BASELINE_BOTTOM_HDR"].n = 0)
                    /\ swapped \in DOMAIN ifg_meta =>
                          /\ ifg_meta[swapped]["P_BASELINE_TOP_HDR"].n
                                = -m["P_BASELINE_TOP_HDR"].n
                          /\ ifg_meta[swapped]["P_BASELINE_TOP_HDR"].d
                                = m["P_BASELINE_TOP_HDR"].d
                          /\ ifg_meta[swapped]["P_BASELINE_BOTTOM_HDR"].n
                                = -m["P_BASELINE_BOTTOM_HDR"].n

\* C6's case: a pair and its swapped pair, with different top and bottom baselines
C6_Witness ==
    /\ StackCalled /\ pc = "done"
    /\ ~NoBaselines
    /\ DOMAIN ifg_meta = {PairName(D1, D2), PairName(D2, D1)}
    /\ ifg_meta[PairName(D1, D2)]["P_BASELINE_TOP_HDR"].n > 0
    /\ ifg_meta[PairName(D1, D2)]["P_BASELINE_TOP_HDR"]
          # ifg_meta[PairName(D1, D2)]["P_BASELINE_BOTTOM_HDR"]

\* a date in YYMMDD format, given in YYYYMMDD or YYMMDD format
YYMMDD(d) == IF Len(d) = 8 THEN SubSeq(d, 3, 8) ELSE d

\* C7: add_ifgram_metadata takes dates in YYYYMMDD or YYMMDD format and sets DATE12
\* to '<date1>-<date2>', each date in six-digit YYMMDD form, for both formats.
C7_Date12IsSixDigits ==
    StackCalled =>
        \A dir \in DOMAIN ifg_meta :
            ifg_meta[dir]["DATE12"]
                = PyText(YYMMDD(Date1Of(dir)) \o <<"-">> \o YYMMDD(Date2Of(dir)))

\* C10: in every sidecar prepare_geometry and prepare_stack write, each key of the
\* common metadata carries the common metadata's value, overriding the file's own
\* attribute of that name, and each key only the file has is kept; both leave the
\* common metadata dict as it was, so DATE12 and the P_BASELINE keys of one
\* interferogram reach neither the common metadata nor another file's sidecar.
C10_CommonOverridesAndStaysIntact ==
    /\ GeometryCalled =>
          /\ metadata = at_call.metadata
          /\ \A name \in GeomNames : geom[name].rdr =>
                /\ name \in DOMAIN geom_rsc
                /\ \A k \in DOMAIN metadata : geom_rsc[name][k] = metadata[k]
                /\ \A k \in DOMAIN GeomAttribute(geom[name]) \ DOMAIN metadata :
                      geom_rsc[name][k] = GeomAttribute(geom[name])[k]
    /\ StackCalled =>
          /\ metadata = at_call.metadata
          /\ DOMAIN metadata \cap {"DATE12", "P_BASELINE_TOP_HDR", "P_BASELINE_BOTTOM_HDR"} = {}
          /\ \A dir \in DOMAIN ifg_meta :
                /\ dir \in DOMAIN ifg_rsc
                /\ \A k \in DOMAIN metadata : ifg_rsc[dir][k] = metadata[k]
                /\ \A k \in DOMAIN IfgAttribute \ DOMAIN metadata :
                      ifg_rsc[dir][k] = IfgAttribute[k]
                /\ ifg_rsc[dir]["DATE12"] = ifg_meta[dir]["DATE12"]
                /\ ifg_rsc[dir]["DATE12"].s
                      = SubSeq(Date1Of(dir), 3, Len(Date1Of(dir))) \o <<"-">>
                        \o SubSeq(Date2Of(dir), 3, Len(Date2Of(dir)))
                /\ ~NoBaselines =>
                      ifg_rsc[dir]["P_BASELINE_TOP_HDR"] = ifg_meta[dir]["P_BASELINE_TOP_HDR"]

\* C10's case: two interferograms with different baselines, and a common metadata
\* dict whose LENGTH differs from the files' own
C10_Witness ==
    /\ StackCalled /\ pc = "done"
    /\ metadata = OldRsc
    /\ DOMAIN ifg_meta = {PairName(D1, D2), PairName(D1, D1)}
    /\ ~NoBaselines
    /\ ifg_rsc[PairName(D1, D2)]["LENGTH"] # IfgAttribute["LENGTH"]
    /\ ifg_rsc[PairName(D1, D2)]["P_BASELINE_TOP_HDR"]
          # ifg_rsc[PairName(D1, D1)]["P_BASELINE_TOP_HDR"]

====
